---- MODULE Spec2Model ----
(***************************************************************************)
(* Model of src/src/threadedmatrixmultiplier.h: the Buffer Hoare monitor,  *)
(* the worker pool and ThreadedMatrixMultiplier::multiply / destructor.    *)
(*                                                                         *)
(* Granularity.  A thread's step is one stretch of code that runs without  *)
(* giving up the monitor: from monitorIn() to the first wait(), to a       *)
(* signal() that hands the monitor over, or to monitorOut().  Code outside *)
(* the monitor (zero-fill, computeBlock) touches only the caller's output  *)
(* matrix and is one step per call.                                        *)
(*                                                                         *)
(* PcoHoareMonitor.  signal(cond) with a waiter on cond hands the monitor  *)
(* to that waiter and suspends the signaller until the waiter leaves the   *)
(* monitor (monitorOut or wait); signal(cond) without a waiter does        *)
(* nothing.  `owner` is the thread that holds the monitor across steps     *)
(* (only during such a hand-over), `signaled` the suspended signaller.     *)
(*                                                                         *)
(* SquareMatrix.  The matrix type is not part of the header; its element   *)
(* and setElement take (row, col), as the specification of the engine      *)
(* states its matrix interface.                                            *)
(***************************************************************************)
EXTENDS Integers, Sequences, FiniteSets, TLC

\* ---- bounds of the model ------------------------------------------------
NbCallers == 2
MaxThreads == 2
MaxBlocksPerRow == 2
MaxCalls == 2
MaxJobs == 5
MaxEntry == 1

\* ---- program constant: the number of wake pulses in Buffer::terminate ----
NbWakeSignals == 100

Callers == 1..NbCallers
BlocksPerRowInputs == 0..MaxBlocksPerRow
PoolSizes == 1..MaxThreads
\* pool sizes of the drain scenario: around the number of wake pulses
DrainPoolSizes == {1, NbWakeSignals, NbWakeSignals + 1}

Caller(c) == <<"caller", c>>
Worker(w) == <<"worker", w>>
Destructor == <<"destructor", 0>>
NoThread == <<"none", 0>>

VARIABLES
    nbThreads,                   \* ThreadedMatrixMultiplier::nbThreads
    jobQueue,                    \* Buffer::jobQueue
    jobsFinishedPerComputation,  \* Buffer::jobsFinishedPerComputation
    totalJobsPerComputation,     \* Buffer::totalJobsPerComputation
    nextComputationId,           \* Buffer::nextComputationId
    isTerminating,               \* Buffer::isTerminating
    nbJobFinished,               \* Buffer::nbJobFinished
    owner,                       \* thread holding the monitor across steps
    signaled,                    \* signaller suspended by a hand-over
    pcW,                         \* position of each worker thread
    params,                      \* workerThread's local ComputeParameters
    pcC,                         \* position of each thread calling multiply
    nbBlocksPerRow,              \* multiply: argument nbBlocksPerRow
    computationId,               \* multiply: local computationId
    blockI,                      \* multiply: loop variable blockI
    blockJ,                      \* multiply: loop variable blockJ
    totalJobs,                   \* waitAllJobsDone: local totalJobs
    A,                           \* each caller's first input matrix
    B,                           \* each caller's second input matrix
    C,                           \* each caller's output matrix
    pcD,                         \* position of the destructor
    wakeI,                       \* terminate: loop variable i
    joinIdx,                     \* destructor: index of the thread joined
    aborted,                     \* the process was killed (division trap)
    nbCalls,                     \* history: multiply calls begun
    nbJobsAsked,                 \* history: jobs those calls ask for
    issuedIds,                   \* history: ids returned by startNewComputation
    sent,                        \* history: jobs given to sendJob
    dequeued,                    \* history: job -> number of times handed out
    computed,                    \* history: job -> number of computeBlock runs
    reported,                    \* history: job -> number of jobCompleted calls
                                 \*   (the job's block, the id reported)
    blockedAtTerminate,          \* history: callers blocked on jobDone, jobs
                                 \*   outstanding, when terminate() began, and
                                 \*   not released since
    writes,                      \* history: job writes of the current call
    evictedJobs,                 \* history: jobs of the records erased
    falseReturns                 \* history: getJob returned false to worker

vars == <<nbThreads, jobQueue, jobsFinishedPerComputation,
          totalJobsPerComputation, nextComputationId, isTerminating,
          nbJobFinished, owner, signaled, pcW, params, pcC,
          nbBlocksPerRow, computationId, blockI, blockJ, totalJobs, C,
          pcD, wakeI, joinIdx, aborted, nbCalls, nbJobsAsked, issuedIds,
          sent, dequeued,
          computed, reported, blockedAtTerminate, writes, evictedJobs,
          falseReturns, A, B>>

bufferVars == <<jobQueue, jobsFinishedPerComputation, totalJobsPerComputation,
                nextComputationId, isTerminating, nbJobFinished>>
workerVars == <<pcW, params>>
callerVars == <<pcC, nbBlocksPerRow, computationId, blockI, blockJ,
                totalJobs>>
dtorVars == <<pcD, wakeI, joinIdx>>
callHistory == <<nbCalls, nbJobsAsked>>
jobHistory == <<sent, dequeued, computed, reported>>
terminateHistory == <<blockedAtTerminate>>
inputs == <<A, B>>

Workers == 1..nbThreads
\* A.size() of the matrix triple each calling thread works on: caller 1
\* multiplies 2x2 matrices, caller 2 3x3 matrices, ...
size == [c \in Callers |-> c + 1]
NoJob == [computationId |-> -1, blockI |-> 0, blockJ |-> 0,
          nbBlocksPerRow |-> 0, C |-> 0, late |-> FALSE]
EmptyMap == [k \in {} |-> 0]

\* ---- the matrix interface -------------------------------------------------
\* A matrix is its elements by index.  element(first, second) and
\* setElement(first, second, value) take the row, then the column.
elementIndex(first, second) == <<first, second>>
element(M, first, second) == M[elementIndex(first, second)]
matrixCells(n) == {elementIndex(r, c) : r \in 0..(n - 1), c \in 0..(n - 1)}
Matrices(n) == [matrixCells(n) -> 0..MaxEntry]
Ones(n) == [cell \in matrixCells(n) |-> 1]

\* std::map: m[k]++ (operator[] inserts 0 for a missing key)
mapIncrement(m, k) ==
    IF k \in DOMAIN m THEN [m EXCEPT ![k] = @ + 1] ELSE m @@ (k :> 1)
\* std::map: m[k] = v
mapAssign(m, k, v) ==
    IF k \in DOMAIN m THEN [m EXCEPT ![k] = v] ELSE m @@ (k :> v)
\* an erase that leaves the entry in place
mapEraseNothing(m, k) == m
\* std::map: m.erase(k)
mapErase(m, k) == [x \in DOMAIN m \ {k} |-> m[x]]
\* std::map: reading m[k]
mapGet(m, k) == IF k \in DOMAIN m THEN m[k] ELSE 0

\* ---- PcoHoareMonitor ------------------------------------------------------
\* monitorIn(): the monitor mutex is free
monitorIn == owner = NoThread
\* monitorOut(), and the release part of wait(): the suspended signaller, if
\* any, gets the monitor back; otherwise the mutex is released
monitorOut ==
    /\ owner' = signaled
    /\ signaled' = NoThread
\* signal(cond) that found a waiter: hand the monitor to `waiter`
handOver(self, waiter) ==
    /\ owner' = waiter
    /\ signaled' = self

waitingJobAvailable == {w \in Workers : pcW[w] = "waitJobAvailable"}
waitingJobDone == {c \in Callers : pcC[c] = "waitJobDone"}
\* Workers blocked on jobAvailable carry no state of their own, so which of
\* them a signal releases is immaterial: the lowest-numbered one stands for
\* any of them.
wokenWorker == CHOOSE w \in waitingJobAvailable :
                   \A v \in waitingJobAvailable : w <= v

Running == ~aborted

\* the worker threads the constructor starts, each at position `position`
InitPool(pools, position) ==
    /\ nbThreads \in pools
    /\ pcW = [w \in 1..nbThreads |-> position]
    /\ params = [w \in 1..nbThreads |-> NoJob]
    /\ falseReturns = [w \in 1..nbThreads |-> 0]

\* the buffer as constructed, no call of multiply begun, the engine alive
InitEngine ==
    /\ jobQueue = <<>>
    /\ jobsFinishedPerComputation = EmptyMap
    /\ totalJobsPerComputation = EmptyMap
    /\ nextComputationId = 0
    /\ isTerminating = FALSE
    /\ nbJobFinished = 0
    /\ owner = NoThread
    /\ signaled = NoThread
    /\ pcC = [c \in Callers |-> "idle"]
    /\ nbBlocksPerRow = [c \in Callers |-> 0]
    /\ computationId = [c \in Callers |-> -1]
    /\ blockI = [c \in Callers |-> 0]
    /\ blockJ = [c \in Callers |-> 0]
    /\ totalJobs = [c \in Callers |-> 0]
    /\ C = [c \in Callers |-> EmptyMap]
    /\ pcD = "alive"
    /\ wakeI = 0
    /\ joinIdx = 1
    /\ aborted = FALSE
    /\ nbCalls = 0
    /\ nbJobsAsked = 0
    /\ issuedIds = <<>>
    /\ sent = {}
    /\ dequeued = EmptyMap
    /\ computed = EmptyMap
    /\ reported = EmptyMap
    /\ blockedAtTerminate = {}
    /\ writes = [c \in Callers |-> {}]
    /\ evictedJobs = 0

\* Every calling thread multiplies matrices filled with ones; the
\* specifications about the product itself draw the entries instead.
Init ==
    /\ InitPool(PoolSizes, "getJob")
    /\ InitEngine
    /\ A = [c \in Callers |-> Ones(size[c])]
    /\ B = [c \in Callers |-> Ones(size[c])]

\* ---- Buffer::getJob (lines 90-110) ---------------------------------------
\* a wait loop that does not look at the pending list
mustWaitUnlessTerminating == ~isTerminating
\* line 94: the condition of the wait loop
mustWaitForJob == jobQueue = <<>> /\ ~isTerminating
\* line 99: the condition of `return false`
noMoreJobs == isTerminating /\ jobQueue = <<>>
jobKey(job) == <<job.computationId, job.blockI, job.blockJ>>
\* lines 105-106: jobQueue.front() and jobQueue.pop()
front(q) == Head(q)
pop(q) == Tail(q)

\* The loop test, then wait / return false / pop, run inside the monitor by
\* worker w (on entry and again each time it is woken).  After `return
\* false` workerThread breaks out of its loop; after `return true` it calls
\* computeBlock.
getJobBody(w) ==
    /\ IF mustWaitForJob
         THEN /\ pcW' = [pcW EXCEPT ![w] = "waitJobAvailable"]
              /\ UNCHANGED <<jobQueue, params, dequeued, falseReturns>>
         ELSE IF noMoreJobs
         THEN /\ pcW' = [pcW EXCEPT ![w] = "exited"]
              /\ falseReturns' = [falseReturns EXCEPT ![w] = @ + 1]
              /\ UNCHANGED <<jobQueue, params, dequeued>>
         ELSE /\ params' = [params EXCEPT ![w] = front(jobQueue)]
              /\ jobQueue' = pop(jobQueue)
              /\ dequeued' = mapIncrement(dequeued, jobKey(front(jobQueue)))
              /\ pcW' = [pcW EXCEPT ![w] = "computeBlock"]
              /\ UNCHANGED falseReturns
    /\ monitorOut
    /\ UNCHANGED <<nbThreads, inputs, evictedJobs, jobsFinishedPerComputation,
                   totalJobsPerComputation, nextComputationId, isTerminating,
                   nbJobFinished, callerVars, C, dtorVars, aborted,
                   callHistory, issuedIds, sent, computed, reported,
                   terminateHistory, writes>>

getJob(w) ==
    /\ Running
    /\ pcW[w] = "getJob"
    /\ monitorIn
    /\ getJobBody(w)

getJobWake(w) ==
    /\ Running
    /\ pcW[w] = "wokenJobAvailable"
    /\ owner = Worker(w)
    /\ getJobBody(w)

\* ---- ThreadedMatrixMultiplier::computeBlock (lines 328-358) --------------
\* blocks whose i range starts one element early (where there is one)
blockCellsOverlapping(job, n) ==
    LET blockSize == n \div job.nbBlocksPerRow
        first == IF job.blockI > 0 THEN job.blockI * blockSize - 1 ELSE 0
    IN  {elementIndex(j, i) :
             i \in first..((job.blockI + 1) * blockSize - 1),
             j \in (job.blockJ * blockSize)..((job.blockJ + 1) * blockSize - 1)}
\* lines 343-344, 355: the elements the job writes, C->setElement(j, i, sum)
\* for i in the range of block blockI and j in the range of block blockJ
blockCells(job, n) ==
    LET blockSize == n \div job.nbBlocksPerRow
    IN  {elementIndex(j, i) :
             i \in (job.blockI * blockSize)..((job.blockI + 1) * blockSize - 1),
             j \in (job.blockJ * blockSize)..((job.blockJ + 1) * blockSize - 1)}

\* lines 345-352: sum += A->element(k, i) * B->element(j, k) for the k below
\* kEnd, which is nbBlocksPerRow * blockSize after the two loops on k
RECURSIVE blockSum(_, _, _, _, _)
blockSum(Am, Bm, i, j, kEnd) ==
    IF kEnd = 0 THEN 0
    ELSE blockSum(Am, Bm, i, j, kEnd - 1)
             + element(Am, kEnd - 1, i) * element(Bm, j, kEnd - 1)

\* lines 343-357: the values the job leaves in the elements it writes
blockResult(job, Am, Bm, n) ==
    LET blockSize == n \div job.nbBlocksPerRow
        kEnd == job.nbBlocksPerRow * blockSize
    IN  [cell \in blockCells(job, n) |->
             blockSum(Am, Bm, cell[2], cell[1], kEnd)]

computeBlock(w) ==
    /\ Running
    /\ pcW[w] = "computeBlock"
    /\ LET job == params[w]
           c == job.C
           cells == blockCells(job, size[c])
       IN  /\ C' = [C EXCEPT ![c] =
                      blockResult(job, A[c], B[c], size[c]) @@ @]
           /\ writes' = [writes EXCEPT ![c] =
                      @ \cup {<<cell, <<job.blockI, job.blockJ>>>> :
                                  cell \in cells}]
    /\ computed' = mapIncrement(computed, jobKey(params[w]))
    /\ pcW' = [pcW EXCEPT ![w] = "jobCompleted"]
    /\ UNCHANGED <<nbThreads, inputs, evictedJobs, bufferVars, owner,
                   signaled, params, callerVars, dtorVars, aborted,
                   callHistory, issuedIds, sent, dequeued, reported,
                   terminateHistory, falseReturns>>

\* ---- Buffer::jobCompleted (lines 116-122) --------------------------------
\* a worker that reports the block row in place of the computation id
reportedBlock(job) == job.blockI
\* line 317: the argument of jobCompleted
reportedId(job) == job.computationId
\* a jobCompleted that leaves the global counter alone
globalCountStale(n) == n
\* line 118: nbJobFinished++
globalCount(n) == n + 1

jobCompleted(w) ==
    /\ Running
    /\ pcW[w] = "jobCompleted"
    /\ monitorIn
    /\ nbJobFinished' = globalCount(nbJobFinished)
    /\ jobsFinishedPerComputation' =
           mapIncrement(jobsFinishedPerComputation, reportedId(params[w]))
    /\ reported' = mapIncrement(reported,
                       <<reportedId(params[w]), params[w].blockI,
                         params[w].blockJ>>)
    /\ IF waitingJobDone # {}
         THEN \E c \in waitingJobDone :
                  /\ pcC' = [pcC EXCEPT ![c] = "wokenJobDone"]
                  /\ handOver(Worker(w), Caller(c))
                  /\ pcW' = [pcW EXCEPT ![w] = "signaledJobDone"]
         ELSE /\ monitorOut
              /\ pcW' = [pcW EXCEPT ![w] = "getJob"]
              /\ UNCHANGED pcC
    /\ UNCHANGED <<nbThreads, inputs, evictedJobs, jobQueue,
                   totalJobsPerComputation, nextComputationId, isTerminating,
                   params, nbBlocksPerRow, computationId, blockI, blockJ,
                   totalJobs, C, dtorVars, aborted, callHistory, issuedIds,
                   sent, dequeued, computed, terminateHistory, writes,
                   falseReturns>>

\* the signaller gets the monitor back, leaves it and loops to getJob
jobCompletedResume(w) ==
    /\ Running
    /\ pcW[w] = "signaledJobDone"
    /\ owner = Worker(w)
    /\ monitorOut
    /\ pcW' = [pcW EXCEPT ![w] = "getJob"]
    /\ UNCHANGED <<nbThreads, inputs, evictedJobs, bufferVars, params,
                   callerVars, C, dtorVars, aborted, callHistory, issuedIds,
                   jobHistory, terminateHistory, writes, falseReturns>>

\* ---- ThreadedMatrixMultiplier::workerThread (lines 302-319) --------------
workerThread(w) ==
    \/ getJob(w)
    \/ getJobWake(w)
    \/ computeBlock(w)
    \/ jobCompleted(w)
    \/ jobCompletedResume(w)

\* ---- ThreadedMatrixMultiplier::multiply (lines 255-289) ------------------
\* line 258: int blockSize = n / nbBlocksPerRow.  An integer division by
\* zero is undefined: the build either traps (the process is killed) or,
\* blockSize being unused in multiply, elides the division and goes on.
divisionOutcomes(d) == IF d = 0 THEN {"trap", "elided"} ELSE {"quotient"}
\* a total that counts the blocks of a row and of a column, not of the grid
totalBlocksRowAndColumn(d) == d + d
\* line 259: int totalBlocks = nbBlocksPerRow * nbBlocksPerRow
totalBlocks(d) == d * d

\* entry of multiply(A, B, C, nbBlocksPerRow): lines 257-259
multiply(c) ==
    /\ Running
    /\ pcD # "destroyed"
    /\ pcC[c] \in {"idle", "returned"}
    /\ nbCalls < MaxCalls
    /\ \E d \in BlocksPerRowInputs :
         \E outcome \in divisionOutcomes(d) :
           /\ nbJobsAsked + totalBlocks(d) <= MaxJobs
           /\ nbJobsAsked' = nbJobsAsked + totalBlocks(d)
           /\ nbBlocksPerRow' = [nbBlocksPerRow EXCEPT ![c] = d]
           /\ aborted' = (outcome = "trap")
           /\ pcC' = [pcC EXCEPT ![c] =
                        IF outcome = "trap" THEN "crashed" ELSE "zeroFill"]
    /\ nbCalls' = nbCalls + 1
    /\ writes' = [writes EXCEPT ![c] = {}]
    /\ UNCHANGED <<nbThreads, inputs, evictedJobs, bufferVars, owner,
                   signaled, workerVars, computationId, blockI, blockJ,
                   totalJobs, C, dtorVars, issuedIds, jobHistory,
                   terminateHistory, falseReturns>>

\* lines 262-266: C.setElement(i, j, 0) for every element
zeroFill(c) ==
    /\ Running
    /\ pcC[c] = "zeroFill"
    /\ C' = [C EXCEPT ![c] = [cell \in matrixCells(size[c]) |-> 0]]
    /\ pcC' = [pcC EXCEPT ![c] = "startNewComputation"]
    /\ UNCHANGED <<nbThreads, inputs, evictedJobs, bufferVars, owner,
                   signaled, workerVars, nbBlocksPerRow, computationId,
                   blockI, blockJ, totalJobs, dtorVars, aborted, callHistory,
                   issuedIds, jobHistory, terminateHistory, writes,
                   falseReturns>>

\* ---- Buffer::startNewComputation (lines 129-136) -------------------------
\* an id counter that is read but not advanced
noIncrement(id) == id
\* line 131: nextComputationId++ leaves this value in nextComputationId
postIncrement(id) == id + 1

\* line 269, then the first test of the loops of lines 272-273
startNewComputation(c) ==
    /\ Running
    /\ pcD # "destroyed"
    /\ pcC[c] = "startNewComputation"
    /\ monitorIn
    /\ LET id == nextComputationId
       IN  /\ nextComputationId' = postIncrement(nextComputationId)
           /\ jobsFinishedPerComputation' =
                  mapAssign(jobsFinishedPerComputation, id, 0)
           /\ totalJobsPerComputation' =
                  mapAssign(totalJobsPerComputation, id,
                            totalBlocks(nbBlocksPerRow[c]))
           /\ computationId' = [computationId EXCEPT ![c] = id]
           /\ issuedIds' = Append(issuedIds, id)
    /\ monitorOut
    /\ blockI' = [blockI EXCEPT ![c] = 0]
    /\ blockJ' = [blockJ EXCEPT ![c] = 0]
    /\ pcC' = [pcC EXCEPT ![c] =
                 IF 0 < nbBlocksPerRow[c] THEN "sendJob" ELSE "waitAllJobsDone"]
    /\ UNCHANGED <<nbThreads, inputs, evictedJobs, jobQueue, isTerminating,
                   nbJobFinished, workerVars, nbBlocksPerRow, totalJobs, C,
                   dtorVars, aborted, callHistory, jobHistory,
                   terminateHistory, writes, falseReturns>>

\* ---- Buffer::sendJob (lines 78-83) ---------------------------------------
\* a multiply that clears the output matrix after the dispatch loops
afterSendJobZeroFill(c, bi) ==
    IF bi < nbBlocksPerRow[c] THEN "sendJob" ELSE "zeroFill"
\* lines 272-273: where multiply goes once blockI has reached bi
afterSendJob(c, bi) ==
    IF bi < nbBlocksPerRow[c] THEN "sendJob" ELSE "waitAllJobsDone"

\* lines 274-281: the ComputeParameters of the job for (blockI, blockJ).  C
\* names the caller whose matrices A, B and C the job points to; `late` is
\* history, not a field of the program: the job is sent after terminate()
\* began.
newJob(c) ==
    [computationId |-> computationId[c], blockI |-> blockI[c],
     blockJ |-> blockJ[c], nbBlocksPerRow |-> nbBlocksPerRow[c], C |-> c,
     late |-> isTerminating]

\* a push that puts the job ahead of the pending ones
pushFront(q, job) == <<job>> \o q
\* line 80: jobQueue.push(params)
push(q, job) == Append(q, job)

\* line 283 and the loop increments that follow the call
sendJob(c) ==
    /\ Running
    /\ pcD # "destroyed"
    /\ pcC[c] = "sendJob"
    /\ monitorIn
    /\ jobQueue' = push(jobQueue, newJob(c))
    /\ sent' = sent \cup {jobKey(newJob(c))}
    /\ LET lastJ == blockJ[c] + 1 >= nbBlocksPerRow[c]
           bi == IF lastJ THEN blockI[c] + 1 ELSE blockI[c]
       IN  /\ blockJ' = [blockJ EXCEPT ![c] = IF lastJ THEN 0 ELSE @ + 1]
           /\ blockI' = [blockI EXCEPT ![c] = bi]
           /\ IF waitingJobAvailable # {}
                THEN /\ pcW' = [pcW EXCEPT ![wokenWorker] = "wokenJobAvailable"]
                     /\ handOver(Caller(c), Worker(wokenWorker))
                     /\ pcC' = [pcC EXCEPT ![c] = "signaledJobAvailable"]
                ELSE /\ monitorOut
                     /\ pcC' = [pcC EXCEPT ![c] = afterSendJob(c, bi)]
                     /\ UNCHANGED pcW
    /\ UNCHANGED <<nbThreads, inputs, evictedJobs, jobsFinishedPerComputation,
                   totalJobsPerComputation, nextComputationId, isTerminating,
                   nbJobFinished, params, nbBlocksPerRow, computationId,
                   totalJobs, C, dtorVars, aborted, callHistory, issuedIds,
                   dequeued, computed, reported, terminateHistory, writes,
                   falseReturns>>

\* the signaller gets the monitor back, leaves it and returns to the loops
sendJobResume(c) ==
    /\ Running
    /\ pcC[c] = "signaledJobAvailable"
    /\ owner = Caller(c)
    /\ monitorOut
    /\ pcC' = [pcC EXCEPT ![c] = afterSendJob(c, blockI[c])]
    /\ UNCHANGED <<nbThreads, inputs, evictedJobs, bufferVars, workerVars,
                   nbBlocksPerRow, computationId, blockI, blockJ, totalJobs,
                   C, dtorVars, aborted, callHistory, issuedIds, jobHistory,
                   terminateHistory, writes, falseReturns>>

\* ---- Buffer::waitAllJobsDone (lines 142-152) -----------------------------
\* a wait loop that lets the caller go one job early
jobsOutstandingButOne(id, total) ==
    mapGet(jobsFinishedPerComputation, id) + 1 < total
\* a wait loop that still waits when the counter has reached the total
jobsOutstandingOrNone(id, total) ==
    mapGet(jobsFinishedPerComputation, id) <= total
\* line 145: the condition of the wait loop
jobsOutstanding(id, total) ==
    mapGet(jobsFinishedPerComputation, id) < total

\* The loop test, then wait, or cleanup and return, run inside the monitor
\* by caller c with the local totalJobs = total.
waitAllJobsDoneBody(c, total) ==
    /\ IF jobsOutstanding(computationId[c], total)
         THEN /\ pcC' = [pcC EXCEPT ![c] = "waitJobDone"]
              /\ UNCHANGED <<jobsFinishedPerComputation,
                             totalJobsPerComputation, blockedAtTerminate,
                             evictedJobs>>
         ELSE /\ evictedJobs' = evictedJobs + total
              /\ jobsFinishedPerComputation' =
                     mapErase(jobsFinishedPerComputation, computationId[c])
              /\ totalJobsPerComputation' =
                     mapErase(totalJobsPerComputation, computationId[c])
              /\ pcC' = [pcC EXCEPT ![c] = "returned"]
              /\ blockedAtTerminate' = blockedAtTerminate \ {c}
    /\ totalJobs' = [totalJobs EXCEPT ![c] = total]
    /\ monitorOut
    /\ UNCHANGED <<nbThreads, inputs, jobQueue, nextComputationId,
                   isTerminating, nbJobFinished, workerVars, nbBlocksPerRow,
                   computationId, blockI, blockJ, C, dtorVars, aborted,
                   callHistory, issuedIds, jobHistory, writes, falseReturns>>

waitAllJobsDone(c) ==
    /\ Running
    /\ pcD # "destroyed"
    /\ pcC[c] = "waitAllJobsDone"
    /\ monitorIn
    /\ waitAllJobsDoneBody(c, mapGet(totalJobsPerComputation, computationId[c]))

waitAllJobsDoneWake(c) ==
    /\ Running
    /\ pcC[c] = "wokenJobDone"
    /\ owner = Caller(c)
    /\ waitAllJobsDoneBody(c, totalJobs[c])

callerThread(c) ==
    \/ multiply(c)
    \/ zeroFill(c)
    \/ startNewComputation(c)
    \/ sendJob(c)
    \/ sendJobResume(c)
    \/ waitAllJobsDone(c)
    \/ waitAllJobsDoneWake(c)

\* ---- Buffer::terminate (lines 157-176) -----------------------------------
\* a wake loop that gives a single pulse
afterSingleWakeSignal(k) == IF k < 1 THEN "wakeLoop" ELSE "join"
\* line 171: where terminate goes once i has reached k
afterWakeSignal(k) == IF k < NbWakeSignals THEN "wakeLoop" ELSE "join"

\* lines 158-168, then the first test of the loop of line 171
terminate ==
    /\ Running
    /\ pcD = "alive"
    /\ monitorIn
    /\ isTerminating' = TRUE
    /\ monitorOut
    /\ wakeI' = 0
    /\ pcD' = afterWakeSignal(0)
    /\ blockedAtTerminate' =
           {c \in waitingJobDone :
                jobsOutstanding(computationId[c], totalJobs[c])}
    /\ UNCHANGED <<nbThreads, inputs, evictedJobs, jobQueue,
                   jobsFinishedPerComputation, totalJobsPerComputation,
                   nextComputationId, nbJobFinished, workerVars, callerVars,
                   C, joinIdx, aborted, callHistory, issuedIds, jobHistory,
                   writes, falseReturns>>

\* lines 172-174: passes of the loop.  A pass that finds a worker on
\* jobAvailable hands the monitor to it.  A pass that finds none changes
\* nothing but i, and no later pass finds one either (isTerminating is set, so
\* no worker waits again): the remaining passes are taken as one step.
wakeSignal ==
    /\ Running
    /\ pcD = "wakeLoop"
    /\ monitorIn
    /\ IF waitingJobAvailable # {}
         THEN /\ pcW' = [pcW EXCEPT ![wokenWorker] = "wokenJobAvailable"]
              /\ handOver(Destructor, Worker(wokenWorker))
              /\ pcD' = "signaledWake"
              /\ UNCHANGED wakeI
         ELSE /\ monitorOut
              /\ wakeI' = NbWakeSignals
              /\ pcD' = afterWakeSignal(NbWakeSignals)
              /\ UNCHANGED pcW
    /\ UNCHANGED <<nbThreads, inputs, evictedJobs, bufferVars, params,
                   callerVars, C, joinIdx, aborted, callHistory, issuedIds,
                   jobHistory, terminateHistory, writes, falseReturns>>

\* the signaller gets the monitor back, leaves it and loops
wakeSignalResume ==
    /\ Running
    /\ pcD = "signaledWake"
    /\ owner = Destructor
    /\ monitorOut
    /\ wakeI' = wakeI + 1
    /\ pcD' = afterWakeSignal(wakeI + 1)
    /\ UNCHANGED <<nbThreads, inputs, evictedJobs, bufferVars, workerVars,
                   callerVars, C, joinIdx, aborted, callHistory, issuedIds,
                   jobHistory, terminateHistory, writes, falseReturns>>

\* ---- ~ThreadedMatrixMultiplier (lines 222-231) ---------------------------
\* lines 228-230: thread->join() returns once that worker has left its loop;
\* after the last join the destructor returns
joinThread ==
    /\ Running
    /\ pcD = "join"
    /\ joinIdx <= nbThreads
    /\ pcW[joinIdx] = "exited"
    /\ joinIdx' = joinIdx + 1
    /\ pcD' = IF joinIdx + 1 > nbThreads THEN "destroyed" ELSE "join"
    /\ UNCHANGED <<nbThreads, inputs, evictedJobs, bufferVars, owner,
                   signaled, workerVars, callerVars, C, wakeI, aborted,
                   callHistory, issuedIds, jobHistory, terminateHistory,
                   writes, falseReturns>>

destructor ==
    \/ terminate
    \/ wakeSignal
    \/ wakeSignalResume
    \/ joinThread

\* ---- specifications ------------------------------------------------------
Next ==
    \/ \E w \in Workers : workerThread(w)
    \/ \E c \in Callers : callerThread(c)
    \/ destructor

Spec == Init /\ [][Next]_vars

\* Scheduling.  Every thread that can take a step eventually takes one, and a
\* thread that keeps finding the monitor free at times eventually enters it.
\* Nothing obliges a thread to call multiply, nor the owner to destroy the
\* engine; a destructor that has begun goes on.
callInProgress(c) ==
    \/ zeroFill(c)
    \/ startNewComputation(c)
    \/ sendJob(c)
    \/ sendJobResume(c)
    \/ waitAllJobsDone(c)
    \/ waitAllJobsDoneWake(c)
teardownInProgress ==
    \/ wakeSignal
    \/ wakeSignalResume
    \/ joinThread
Fairness ==
    /\ \A w \in 1..MaxThreads : SF_vars(w \in Workers /\ workerThread(w))
    /\ \A c \in Callers : SF_vars(callInProgress(c))
    /\ SF_vars(teardownInProgress)

\* The engine in service: threads call multiply, concurrently and call after
\* call, and the engine is not torn down.
ServiceNext ==
    \/ \E w \in Workers : workerThread(w)
    \/ \E c \in Callers : callerThread(c)
ServiceSpec == Init /\ [][ServiceNext]_vars /\ Fairness

\* One thread calls multiply, call after call, and the engine is not torn
\* down.
SingleCallNext ==
    \/ \E w \in Workers : workerThread(w)
    \/ callerThread(1)
SingleCallSpec == Init /\ [][SingleCallNext]_vars /\ Fairness

\* The drain of an idle pool: every worker has run up to wait(jobAvailable)
\* of its first getJob, no thread calls multiply, and the engine is
\* destroyed.
DrainInit ==
    /\ InitPool(DrainPoolSizes, "waitJobAvailable")
    /\ InitEngine
    /\ A = [c \in Callers |-> Ones(size[c])]
    /\ B = [c \in Callers |-> Ones(size[c])]
DrainNext ==
    \/ \E w \in Workers : getJobWake(w)
    \/ destructor
DrainSpec == DrainInit /\ [][DrainNext]_vars

\* One thread calls multiply on 2x2 matrices with any entries up to
\* MaxEntry, call after call, and the engine is not torn down.
ProductInit ==
    /\ InitPool(PoolSizes, "getJob")
    /\ InitEngine
    /\ \E Am \in Matrices(size[1]), Bm \in Matrices(size[1]) :
           /\ A = [c \in Callers |-> IF c = 1 THEN Am ELSE Ones(size[c])]
           /\ B = [c \in Callers |-> IF c = 1 THEN Bm ELSE Ones(size[c])]
ProductNext ==
    \/ \E w \in Workers : workerThread(w)
    \/ callerThread(1)
ProductSpec == ProductInit /\ [][ProductNext]_vars

\* The engine is used and then destroyed.  Small pools serve the multiply
\* calls of one thread until the destructor runs, so that terminate() finds
\* the workers in any position; a pool of NbWakeSignals workers is destroyed
\* idle, every worker blocked in its first getJob.
TeardownInit ==
    \/ Init
    \/ /\ InitPool({NbWakeSignals}, "waitJobAvailable")
       /\ InitEngine
       /\ A = [c \in Callers |-> Ones(size[c])]
       /\ B = [c \in Callers |-> Ones(size[c])]
TeardownNext ==
    \/ \E w \in Workers : workerThread(w)
    \/ nbThreads <= MaxThreads /\ callerThread(1)
    \/ destructor
\* In the idle pool a worker takes a step only while it holds the monitor
\* terminate() handed to it, so no two workers can take a step at the same
\* time there: one condition for the workers beyond MaxThreads says that each
\* of them, once woken, goes on.
TeardownFairness ==
    /\ Fairness
    /\ SF_vars(\E w \in Workers : w > MaxThreads /\ workerThread(w))
TeardownSpec == TeardownInit /\ [][TeardownNext]_vars /\ TeardownFairness

\* ---- C1 ------------------------------------------------------------------
inCall(c) == pcC[c] \notin {"idle", "returned", "crashed"}
allJobsReported(c) ==
    /\ pcC[c] = "waitJobDone"
    /\ ~jobsOutstanding(computationId[c], totalJobs[c])

\* C1: under fair scheduling every multiply call eventually returns, and a
\* thread blocked in waitAllJobsDone(id) whose computation has reached its
\* total is eventually released (unless the process was killed meanwhile).
C1_EveryCallReturns ==
    \A c \in Callers :
        /\ inCall(c) ~> (pcC[c] = "returned" \/ aborted)
        /\ allJobsReported(c) ~> (pcC[c] = "returned" \/ aborted)

\* ---- C2 ------------------------------------------------------------------
RECURSIVE historySum(_, _)
historySum(h, keys) ==
    IF keys = {} THEN 0
    ELSE LET k == CHOOSE x \in keys : TRUE
         IN  h[k] + historySum(h, keys \ {k})
\* the number of events history h records for jobs tagged id
eventsFor(h, id) == historySum(h, {k \in DOMAIN h : k[1] = id})

\* C2: a call returns from waitAllJobsDone(X) only when exactly
\* blocksPerSide^2 jobs tagged X have been reported by jobCompleted, and the
\* counter of X counts the completions of jobs tagged X and no others.
C2_NoEarlyReturn ==
    /\ \A c \in Callers :
           pcC[c] = "returned" =>
               eventsFor(reported, computationId[c])
                   = nbBlocksPerRow[c] * nbBlocksPerRow[c]
    /\ \A id \in DOMAIN jobsFinishedPerComputation :
           jobsFinishedPerComputation[id] = eventsFor(reported, id)

\* two calls overlap, and one of them has returned from a 2x2 grid of jobs
C2_Witness ==
    \E c \in Callers, o \in Callers :
        /\ c # o
        /\ pcC[c] = "returned"
        /\ nbBlocksPerRow[c] = 2
        /\ pcC[o] \in {"waitJobDone", "sendJob"}
        /\ eventsFor(reported, computationId[o]) = 0

\* ---- C3 ------------------------------------------------------------------
\* C3: once terminate() has returned, no worker is still blocked on
\* jobAvailable (nothing signals that condition again, so such a worker
\* would stay blocked forever), and getJob has returned false exactly once to
\* every worker that left its loop and never more than once to any.
C3_DrainWakesEveryone ==
    /\ pcD \in {"join", "destroyed"} =>
           \A w \in Workers : pcW[w] # "waitJobAvailable"
    /\ \A w \in Workers :
           /\ falseReturns[w] <= 1
           /\ pcW[w] = "exited" <=> falseReturns[w] = 1

\* ---- C4 ------------------------------------------------------------------
allWorkersExited == \A w \in Workers : pcW[w] = "exited"
pendingLate(k) ==
    \E x \in 1..Len(jobQueue) : jobKey(jobQueue[x]) = k /\ jobQueue[x].late
processedOnce(k) ==
    /\ mapGet(dequeued, k) = 1
    /\ mapGet(computed, k) = 1
    /\ mapGet(reported, k) = 1

\* C4: when the destructor returns, every worker has left its loop, the
\* pending job list is empty, and every job enqueued before terminate() began
\* has been dequeued, computed and reported.
C4_CleanShutdown ==
    pcD = "destroyed" =>
        /\ allWorkersExited
        /\ jobQueue = <<>>
        /\ \A k \in sent : processedOnce(k) \/ pendingLate(k)

\* ---- C5 ------------------------------------------------------------------
\* C5: shutdown during an active computation drops nothing.  Once every
\* worker has left its loop nothing reports a job or signals jobDone any
\* more; by then no job sent before terminate() began is still pending (no
\* worker was told to stop while one was), each of them has been processed,
\* and a caller that was blocked in waitAllJobsDone with jobs outstanding
\* when terminate() began has been released.
C5_ShutdownDropsNothing ==
    allWorkersExited =>
        /\ \A x \in 1..Len(jobQueue) : jobQueue[x].late
        /\ \A k \in sent : processedOnce(k) \/ pendingLate(k)
        /\ \A c \in blockedAtTerminate : pcC[c] # "waitJobDone"

\* ---- C6 ------------------------------------------------------------------
\* nbBlocksPerRow evenly divides the matrix size
validGrid(c) ==
    /\ nbBlocksPerRow[c] > 0
    /\ size[c] % nbBlocksPerRow[c] = 0

\* C6: a multiply call whose nbBlocksPerRow does not evenly divide the matrix
\* size (0 included) is rejected before a computation is registered or a job
\* enqueued: it never gets past the call of startNewComputation, and no job
\* of it is ever sent.
C6_ConfigurationErrorRejected ==
    \A c \in Callers :
        (inCall(c) \/ pcC[c] = "returned") /\ ~validGrid(c) =>
            /\ pcC[c] \in {"zeroFill", "startNewComputation"}
            /\ computationId[c] \notin DOMAIN totalJobsPerComputation

\* ---- C7 ------------------------------------------------------------------
\* C7: with one thread calling multiply and any number of workers, more
\* than nbBlocksPerRow^2 included, every call with a grid dimension d >= 1
\* eventually returns; when it has, exactly d*d jobs of it have been handed
\* out, each once; and no worker ever leaves its loop, so a worker that gets
\* no job stays in getJob.
C7_WorkerCountInvariance ==
    /\ inCall(1) ~> pcC[1] = "returned"
    /\ [](pcC[1] = "returned" /\ nbBlocksPerRow[1] >= 1 =>
              eventsFor(dequeued, computationId[1])
                  = nbBlocksPerRow[1] * nbBlocksPerRow[1])
    /\ [](\A w \in Workers : pcW[w] # "exited")

\* a call with a single block has returned from a pool of two workers, one of
\* which is parked in getJob
C7_Witness ==
    /\ nbThreads = 2
    /\ pcC[1] = "returned"
    /\ nbBlocksPerRow[1] = 1
    /\ eventsFor(dequeued, computationId[1]) = 1
    /\ \E w \in Workers : pcW[w] = "waitJobAvailable"

\* ---- C8 ------------------------------------------------------------------
liveIds == DOMAIN totalJobsPerComputation
counterWithinTotal ==
    \A id \in liveIds :
        mapGet(jobsFinishedPerComputation, id) <= totalJobsPerComputation[id]
\* caller c runs the loop test of waitAllJobsDone in this step
testsCompletion(c) ==
    /\ pcC[c] \in {"waitAllJobsDone", "wokenJobDone"}
    /\ pcC'[c] # pcC[c]
countersEqual(id) ==
    /\ id \in liveIds
    /\ mapGet(jobsFinishedPerComputation, id) = totalJobsPerComputation[id]

\* C8 (invariant I2): the finished counter of a live computation record
\* never exceeds its total, and waitAllJobsDone(id) lets its caller go
\* exactly when it finds the two equal; otherwise the caller waits.
C8_CounterBoundedAndSoleRelease ==
    [][/\ counterWithinTotal'
       /\ \A c \in Callers :
              testsCompletion(c) =>
                  /\ pcC'[c] \in {"returned", "waitJobDone"}
                  /\ pcC'[c] = "returned" <=> countersEqual(computationId[c])
      ]_vars

\* a caller woken with its counter still short of the total
C8_Witness ==
    \E c \in Callers :
        /\ pcC[c] = "wokenJobDone"
        /\ computationId[c] \in liveIds
        /\ jobsFinishedPerComputation[computationId[c]] = 1
        /\ totalJobsPerComputation[computationId[c]] = 4

\* ---- C9 ------------------------------------------------------------------
registered(c) ==
    pcC[c] \in {"sendJob", "signaledJobAvailable", "waitAllJobsDone",
                "waitJobDone", "wokenJobDone"}

\* C9 (invariant I3): the ids startNewComputation has returned are pairwise
\* distinct and strictly increasing, calls in flight at the same time hold
\* different ids, and a new computation never takes an id that still has a
\* record.
C9_UniqueIncreasingIds ==
    [][/\ \A x, y \in 1..Len(issuedIds') :
              x < y => issuedIds'[x] < issuedIds'[y]
       /\ \A c, o \in Callers :
              c # o /\ registered(c)' /\ registered(o)' =>
                  computationId'[c] # computationId'[o]
       /\ Len(issuedIds') > Len(issuedIds) =>
              /\ issuedIds'[Len(issuedIds')] \notin liveIds
              /\ issuedIds'[Len(issuedIds')]
                     \notin DOMAIN jobsFinishedPerComputation
      ]_vars

\* two threads have registered computations that are in flight together
C9_Witness ==
    /\ Len(issuedIds) = 2
    /\ \A c \in {1, 2} : registered(c)
    /\ Cardinality(liveIds) = 2

\* ---- C10 -----------------------------------------------------------------
writtenCells(c) == {e[1] : e \in writes[c]}
busy(w) == pcW[w] \in {"computeBlock", "jobCompleted", "signaledJobDone"}

RECURSIVE productEntry(_, _, _, _, _)
productEntry(Am, Bm, i, j, n) ==
    IF n = 0 THEN 0
    ELSE productEntry(Am, Bm, i, j, n - 1)
             + element(Am, i, n - 1) * element(Bm, n - 1, j)

\* C11 (P1): when multiply(A, B, C, d) has returned, d dividing the size n,
\* the element of C in row i, column j is the sum over k of
\* A[i][k] * B[k][j], for all i and j.
C11_ProductCorrect ==
    \A c \in Callers :
        pcC[c] = "returned" /\ validGrid(c) =>
            \A i, j \in 0..(size[c] - 1) :
                element(C[c], i, j)
                    = productEntry(A[c], B[c], i, j, size[c])

\* ---- C12 -----------------------------------------------------------------
\* C12: no job of the pending list was added by sendJob after terminate()
\* had set the terminating state, and no job is pending once every worker
\* has left its loop.
C12_DrainAcceptsNoNewWork ==
    /\ \A x \in 1..Len(jobQueue) : ~jobQueue[x].late
    /\ allWorkersExited => jobQueue = <<>>

\* ---- C13 -----------------------------------------------------------------
\* C13: with at most NbWakeSignals workers, once terminate() has set the
\* terminating state every worker eventually leaves workerThread and the
\* destructor's joins complete (unless the process is killed meanwhile).
C13_BoundedDrain ==
    isTerminating ~> ((allWorkersExited /\ pcD = "destroyed") \/ aborted)

\* a pool of NbWakeSignals workers, all blocked in getJob when terminate()
\* began, has been drained and joined
C13_Witness ==
    /\ nbThreads = NbWakeSignals
    /\ wakeI = NbWakeSignals
    /\ allWorkersExited
    /\ pcD = "destroyed"

\* ---- C14 -----------------------------------------------------------------
issued == {issuedIds[x] : x \in 1..Len(issuedIds)}
\* the calls that have registered a computation and not yet returned
registeredCalls == {c \in Callers : registered(c)}

\* C14: an id has an entry, in either map, exactly while a call that
\* registered it has not returned from waitAllJobsDone: the entries of an id
\* are gone when its call has returned and nothing re-creates them, and the
\* live records are never more than the calls registered and not returned.
C14_RecordEviction ==
    /\ DOMAIN jobsFinishedPerComputation = liveIds
    /\ liveIds \subseteq issued
    /\ \A id \in issued :
           id \in liveIds <=>
               \E c \in registeredCalls : computationId[c] = id
    /\ Cardinality(liveIds) <= Cardinality(registeredCalls)

\* a call has returned and its record is gone, while the jobs of a later
\* computation are being reported
C14_Witness ==
    \E c \in Callers, id \in liveIds :
        /\ pcC[c] = "returned"
        /\ eventsFor(reported, computationId[c]) = 4
        /\ computationId[c] \notin liveIds
        /\ id > computationId[c]
        /\ jobsFinishedPerComputation[id] = 1

\* ---- C15 -----------------------------------------------------------------
computing(w, k) == pcW[w] = "computeBlock" /\ jobKey(params[w]) = k
reporting(w, k) == pcW[w] = "jobCompleted" /\ jobKey(params[w]) = k
\* every job handed out is with the worker that got it, first to be
\* computed, then to be reported under its own id, or is done with
jobsFollowProtocol ==
    /\ DOMAIN computed \subseteq DOMAIN dequeued
    /\ DOMAIN reported \subseteq DOMAIN computed
    /\ \A k \in DOMAIN dequeued :
           /\ mapGet(reported, k) <= mapGet(computed, k)
           /\ mapGet(computed, k) <= dequeued[k]
           /\ mapGet(computed, k) < dequeued[k] =>
                  \E w \in Workers : computing(w, k)
           /\ mapGet(reported, k) < mapGet(computed, k) =>
                  \E w \in Workers : reporting(w, k)
\* no block of a call that has returned is being computed or yet to be
noBlockAfterRelease ==
    \A c \in Callers :
        ~inCall(c) =>
            /\ \A w \in Workers : pcW[w] = "computeBlock" => params[w].C # c
            /\ \A x \in 1..Len(jobQueue) : jobQueue[x].C # c

\* C15: a worker leaves its loop only after getJob returned false to it;
\* every job a worker dequeues is computed to the end and then reported by
\* one jobCompleted call carrying the job's computation id, also when the
\* engine is torn down meanwhile; and no block of a call is still being
\* written when its caller has been released.
C15_WorkerProtocol ==
    /\ [](\A w \in Workers : pcW[w] = "exited" => falseReturns[w] >= 1)
    /\ []jobsFollowProtocol
    /\ []noBlockAfterRelease
    /\ \A w \in 1..MaxThreads :
           (w \in Workers /\ pcW[w] = "computeBlock")
               ~> \/ aborted
                  \/ /\ w \in Workers
                     /\ pcW[w] = "getJob"
                     /\ mapGet(reported, jobKey(params[w])) = 1

\* terminate() began while a worker was computing a block; the block has
\* been reported, the caller released and the worker has left its loop
C15_Witness ==
    \E w \in Workers :
        /\ pcW[w] = "exited"
        /\ params[w] # NoJob
        /\ reported[jobKey(params[w])] = 1
        /\ pcC[params[w].C] = "returned"
        /\ nbJobFinished = 4

\* ---- C16 -----------------------------------------------------------------
\* multiply sends the jobs of a call row by row: job a is sent before job b
sentBefore(a, b) ==
    /\ a[1] = b[1]
    /\ a[2] < b[2] \/ (a[2] = b[2] /\ a[3] < b[3])
\* worker w is handed a job in this step
handedJob(w) == pcW'[w] = "computeBlock" /\ pcW[w] # "computeBlock"

\* C16: the pending list changes only by sendJob adding a job behind all
\* pending ones and by getJob handing out and removing the oldest one, so
\* that of two jobs the one enqueued first is handed out first; in
\* particular the jobs of one call wait and are handed out in the order
\* multiply sent them.
C16_FifoDequeue ==
    /\ [][/\ sent' # sent =>
                 /\ Len(jobQueue') = Len(jobQueue) + 1
                 /\ SubSeq(jobQueue', 1, Len(jobQueue)) = jobQueue
                 /\ jobKey(jobQueue'[Len(jobQueue')]) \in sent' \ sent
          /\ \A w \in Workers :
                 handedJob(w) =>
                     /\ jobQueue # <<>>
                     /\ params'[w] = jobQueue[1]
                     /\ jobQueue' = SubSeq(jobQueue, 2, Len(jobQueue))
          /\ (sent' = sent /\ \A w \in Workers : ~handedJob(w)) =>
                 jobQueue' = jobQueue
         ]_vars
    /\ [](\A x, y \in 1..Len(jobQueue) :
              x < y /\ jobQueue[x].computationId = jobQueue[y].computationId
                  => sentBefore(jobKey(jobQueue[x]), jobKey(jobQueue[y])))
    /\ [](\A a, b \in sent :
              sentBefore(a, b) /\ b \in DOMAIN dequeued
                  => a \in DOMAIN dequeued)

\* the jobs of two calls wait interleaved, some of them already handed out
C16_Witness ==
    /\ Len(jobQueue) >= 3
    /\ DOMAIN dequeued # {}
    /\ \E x, y \in 1..Len(jobQueue) :
           x < y /\ jobQueue[x].computationId > jobQueue[y].computationId

\* ---- C17 -----------------------------------------------------------------
\* the elements of block (blockRow, blockCol) of an n x n matrix cut into d
\* blocks per side: rows of block blockRow, columns of block blockCol
blockOf(blockRow, blockCol, n, d) ==
    LET blockSize == n \div d
    IN  {elementIndex(row, col) :
             row \in (blockRow * blockSize)..((blockRow + 1) * blockSize - 1),
             col \in (blockCol * blockSize)..((blockCol + 1) * blockSize - 1)}

\* C17: every output element set by the job for block (blockI, blockJ) of a
\* call lies in the rows of block blockI and the columns of block blockJ.
C17_KernelWriteConfinement ==
    \A c \in Callers :
        \A e \in writes[c] :
            e[1] \in blockOf(e[2][1], e[2][2], size[c], nbBlocksPerRow[c])

\* ---- C18 -----------------------------------------------------------------
\* caller c runs the zero-fill loops in this step
zeroFilling(c) == pcC[c] = "zeroFill" /\ pcC'[c] # "zeroFill"
\* nothing of caller c's call exists in the buffer or with a worker
nothingDispatched(c) ==
    /\ computationId[c] \notin liveIds
    /\ \A x \in 1..Len(jobQueue) : jobQueue[x].C # c
    /\ \A w \in Workers : pcW[w] = "computeBlock" => params[w].C # c
\* the value the job for block (bi, bj) of caller c's call leaves in `cell`
writtenValue(c, cell, bi, bj) ==
    blockResult([blockI |-> bi, blockJ |-> bj,
                 nbBlocksPerRow |-> nbBlocksPerRow[c]],
                A[c], B[c], size[c])[cell]

\* C18: the zero-fill of a call runs before the call's computation is
\* registered and before any of its jobs is enqueued, handed out or has
\* written, and an element a job of the call has written keeps the job's
\* value: the zero-fill does not overwrite it.
C18_ZeroFillFirst ==
    /\ [][\A c \in Callers :
              zeroFilling(c) => nothingDispatched(c) /\ writes[c] = {}]_vars
    /\ [](\A c \in Callers :
              \A e \in writes[c] :
                  element(C[c], e[1][1], e[1][2])
                      = writtenValue(c, e[1], e[2][1], e[2][2]))

\* a worker has written a block of a call that is still sending its jobs
C18_Witness ==
    \E c \in Callers :
        /\ pcC[c] = "sendJob"
        /\ nbBlocksPerRow[c] = 2
        /\ Cardinality(writes[c]) >= 1
        /\ \E cell \in DOMAIN C[c] : C[c][cell] = 0

\* ---- C19 -----------------------------------------------------------------
\* no thread is inside the monitor
monitorFree == owner = NoThread

\* C19: whenever no thread is inside the monitor, no worker is blocked on
\* jobAvailable while a job is pending.
C19_NoParkedWorkerNextToWork ==
    monitorFree => ~(jobQueue # <<>> /\ waitingJobAvailable # {})

\* jobs are pending with the monitor free: a worker woken by sendJob has taken
\* its job and left the monitor, and no worker is parked
C19_Witness ==
    /\ monitorFree
    /\ Len(jobQueue) >= 2
    /\ nbThreads = 2
    /\ \E w \in Workers : pcW[w] = "computeBlock"
    /\ \E w \in Workers : pcW[w] = "getJob" /\ params[w] # NoJob

\* ---- C20 -----------------------------------------------------------------
\* C20: nbJobFinished is the number of jobCompleted calls made so far, which
\* is the sum of the finished counters of the live computations plus the
\* totals of the computations whose records were erased; it never decreases.
C20_GlobalCounterConsistent ==
    /\ [](nbJobFinished = historySum(reported, DOMAIN reported))
    /\ [](nbJobFinished
             = evictedJobs + historySum(jobsFinishedPerComputation,
                                        DOMAIN jobsFinishedPerComputation))
    /\ [][nbJobFinished' >= nbJobFinished]_vars

\* one computation has been evicted with its 4 jobs counted, another is live
\* with a job reported
C20_Witness ==
    /\ evictedJobs = 4
    /\ nbJobFinished = 5
    /\ \E id \in liveIds : jobsFinishedPerComputation[id] = 1

====
